---- MODULE Spec2Model ----
(***************************************************************************)
(* Model of the e-mail dispatch service of debtx-mail-create:              *)
(*   openAPI_IDC/services/email_sender.py  (registry, dispatch, pipeline,   *)
(*                                          table renderer)                 *)
(*   openAPI_IDC/models/email_sender_model.py (request model)               *)
(*                                                                          *)
(* Text is modelled as a sequence of tokens: a cell text is a sequence of   *)
(* one-character strings, a table fragment is a sequence of markup tokens   *)
(* and characters.                                                          *)
(***************************************************************************)
EXTENDS Integers, Sequences, FiniteSets, TLC

(***************************************************************************)
(* Bounds of the model.                                                     *)
(***************************************************************************)
MaxSends == 2          \* requests received in one behaviour
MaxStrLen == 5         \* length of the generated string cells
MaxCellInt == 1100     \* integer cells range over -MaxCellInt..MaxCellInt
MaxRenders == 2        \* calls of build_html_table in one behaviour
MaxAttachments == 2    \* length of the generated attachment lists

(***************************************************************************)
(* Cell values: the JSON values a Table_Filter_infor mapping can carry.     *)
(***************************************************************************)
IntV(n) == [t |-> "int", v |-> n]
BoolV(b) == [t |-> "bool", v |-> b]
StrV(s) == [t |-> "str", v |-> s]
ListV(l) == [t |-> "list", v |-> l]
NoneV == [t |-> "none", v |-> 0]

DigitChars == <<"0", "1", "2", "3", "4", "5", "6", "7", "8", "9">>

IsDigitChar(c) == \E i \in 1..10 : DigitChars[i] = c

DigitValue(c) == (CHOOSE i \in 1..10 : DigitChars[i] = c) - 1

\* str(n) for n >= 0: the decimal digits, most significant first.
RECURSIVE Digits(_)
Digits(n) ==
    IF n < 10 THEN <<DigitChars[n + 1]>>
    ELSE Digits(n \div 10) \o <<DigitChars[(n % 10) + 1]>>

\* The ',' option of the format mini-language applied to a digit string.
RECURSIVE GroupDigits(_)
GroupDigits(ds) ==
    IF Len(ds) <= 3 THEN ds
    ELSE GroupDigits(SubSeq(ds, 1, Len(ds) - 3)) \o <<",">>
         \o SubSeq(ds, Len(ds) - 2, Len(ds))

\* str(n) for an int n.
IntStr(n) == IF n < 0 THEN <<"-">> \o Digits(0 - n) ELSE Digits(n)

\* Variant: the number formatted without the ',' option.
FormatComma_Plain(n) == IntStr(n)

\* f"{n:,}" for an int n.
FormatComma(n) ==
    IF n < 0 THEN <<"-">> \o GroupDigits(Digits(0 - n))
    ELSE GroupDigits(Digits(n))

\* str.isdigit(): non-empty and every character a digit.
RECURSIVE AllDigits(_)
AllDigits(s) ==
    IF s = <<>> THEN TRUE
    ELSE IsDigitChar(Head(s)) /\ AllDigits(Tail(s))

IsDigit(s) == s # <<>> /\ AllDigits(s)

\* str.count('.')
RECURSIVE CountDots(_)
CountDots(s) ==
    IF s = <<>> THEN 0
    ELSE (IF Head(s) = "." THEN 1 ELSE 0) + CountDots(Tail(s))

\* Index of the first '.', 0 when there is none.
RECURSIVE FirstDot(_, _)
FirstDot(s, i) ==
    IF i > Len(s) THEN 0
    ELSE IF s[i] = "." THEN i
    ELSE FirstDot(s, i + 1)

\* value.replace('.', '', 1)
ReplaceFirstDot(s) ==
    LET d == FirstDot(s, 1) IN
    IF d = 0 THEN s
    ELSE SubSeq(s, 1, d - 1) \o SubSeq(s, d + 1, Len(s))

\* int(s) for a string of digits; int('') raises ValueError.
RECURSIVE DigitsToInt(_)
DigitsToInt(s) ==
    IF s = <<>> THEN 0
    ELSE DigitsToInt(SubSeq(s, 1, Len(s) - 1)) * 10 + DigitValue(s[Len(s)])

ParseInt(s) ==
    IF IsDigit(s) THEN [status |-> "ok", n |-> DigitsToInt(s)]
    ELSE [status |-> "raise", exc |-> "ValueError"]

\* repr() of a list element and str() of a value.
Quoted(s) == <<"'">> \o s \o <<"'">>

ScalarStr(value) ==
    CASE value.t = "int" -> IntStr(value.v)
      [] value.t = "bool" ->
            (IF value.v THEN <<"T", "r", "u", "e">>
             ELSE <<"F", "a", "l", "s", "e">>)
      [] value.t = "str" -> value.v
      [] value.t = "none" -> <<"N", "o", "n", "e">>

ElemRepr(value) ==
    IF value.t = "str" THEN Quoted(value.v) ELSE ScalarStr(value)

RECURSIVE ListBody(_)
ListBody(l) ==
    IF l = <<>> THEN <<>>
    ELSE IF Len(l) = 1 THEN ElemRepr(l[1])
    ELSE ElemRepr(l[1]) \o <<",", " ">> \o ListBody(Tail(l))

DefaultStr(value) ==
    IF value.t = "list" THEN <<"[">> \o ListBody(value.v) \o <<"]">>
    ELSE ScalarStr(value)

\* isinstance(value, (int, float)): bool is a subclass of int.
IsNumberInstance(value) == value.t \in {"int", "bool"}

IsBoolInstance(value) == value.t = "bool"

\* The test of the first branch: a number that is not a bool.
IsNumericCell(value) == IsNumberInstance(value) /\ ~IsBoolInstance(value)

\* The test of the second branch, on a str value.
IsNumericString(s) == IsDigit(ReplaceFirstDot(s)) /\ CountDots(s) <= 1

\* The body of the second branch.
FormatNumericString(s) ==
    IF FirstDot(s, 1) # 0
    THEN LET d == FirstDot(s, 1)
             int_part == SubSeq(s, 1, d - 1)
             dec_part == SubSeq(s, d + 1, Len(s))
             p == ParseInt(int_part)
         IN  IF p.status = "raise" THEN p
             ELSE [status |-> "ok",
                   text |-> FormatComma(p.n) \o <<".">> \o dec_part]
    ELSE LET p == ParseInt(s)
         IN  IF p.status = "raise" THEN p
             ELSE [status |-> "ok", text |-> FormatComma(p.n)]

\* Variant: the chain without the branch of the two-element list.
FormatCell_NoPair(value) ==
    IF IsNumericCell(value)
    THEN [status |-> "ok", text |-> FormatComma(value.v)]
    ELSE IF value.t = "str" /\ IsNumericString(value.v)
    THEN FormatNumericString(value.v)
    ELSE [status |-> "ok", text |-> DefaultStr(value)]

\* The if/elif chain that formats one cell.
FormatCell(value) ==
    IF IsNumericCell(value)
    THEN [status |-> "ok", text |-> FormatComma(value.v)]
    ELSE IF value.t = "str" /\ IsNumericString(value.v)
    THEN FormatNumericString(value.v)
    ELSE IF value.t = "list" /\ Len(value.v) = 2
    THEN [status |-> "ok",
          text |-> DefaultStr(value.v[1]) \o <<" ", "-", " ">>
                   \o DefaultStr(value.v[2])]
    ELSE [status |-> "ok", text |-> DefaultStr(value)]

(***************************************************************************)
(* build_html_table.  A row is a dict in insertion order: a sequence of     *)
(* [k, v] pairs with distinct keys.                                         *)
(***************************************************************************)
NO_DATA == <<"<p>No data available.</p>">>
TABLE_OPEN == "<table>"
TABLE_CLOSE == "</table>"
HEADER_ROW_OPEN == "<tr style=header>"
ROW_OPEN == "<tr>"
ROW_CLOSE == "</tr>"

Keys(row) == [i \in 1..Len(row) |-> row[i].k]

HasKey(row, h) == \E i \in 1..Len(row) : row[i].k = h

Lookup(row, h) == row[CHOOSE i \in 1..Len(row) : row[i].k = h].v

RECURSIVE HeaderCells(_)
HeaderCells(headers) ==
    IF headers = <<>> THEN <<>>
    ELSE <<"<th>", Head(headers), "</th>">> \o HeaderCells(Tail(headers))

\* The inner loop over the headers for one row; row[h] raises KeyError.
RECURSIVE RowCells(_, _)
RowCells(row, headers) ==
    IF headers = <<>> THEN [status |-> "ok", html |-> <<>>]
    ELSE IF ~HasKey(row, Head(headers))
    THEN [status |-> "raise", exc |-> "KeyError"]
    ELSE LET c == FormatCell(Lookup(row, Head(headers))) IN
         IF c.status = "raise" THEN c
         ELSE LET rest == RowCells(row, Tail(headers)) IN
              IF rest.status = "raise" THEN rest
              ELSE [status |-> "ok",
                    html |-> <<"<td>">> \o c.text \o <<"</td>">> \o rest.html]

\* The outer loop over the rows.
RECURSIVE DataRows(_, _)
DataRows(data, headers) ==
    IF data = <<>> THEN [status |-> "ok", html |-> <<>>]
    ELSE LET r == RowCells(Head(data), headers) IN
         IF r.status = "raise" THEN r
         ELSE LET rest == DataRows(Tail(data), headers) IN
              IF rest.status = "raise" THEN rest
              ELSE [status |-> "ok",
                    html |-> <<ROW_OPEN>> \o r.html \o <<ROW_CLOSE>> \o rest.html]

\* "if not data": the list of rows is empty.
NotData(data) == data = <<>>

\* Variant: no guard for an empty list of rows.
build_html_table_NoGuard(data) ==
    LET headers == IF data = <<>> THEN <<>> ELSE Keys(data[1])
        body == DataRows(data, headers)
    IN  IF body.status = "raise" THEN body
        ELSE [status |-> "ok",
              html |-> <<TABLE_OPEN, HEADER_ROW_OPEN>> \o HeaderCells(headers)
                       \o <<ROW_CLOSE>> \o body.html \o <<TABLE_CLOSE>>]

build_html_table(data) ==
    IF NotData(data) THEN [status |-> "ok", html |-> NO_DATA]
    ELSE LET headers == Keys(data[1])
             body == DataRows(data, headers)
         IN  IF body.status = "raise" THEN body
             ELSE [status |-> "ok",
                   html |-> <<TABLE_OPEN, HEADER_ROW_OPEN>> \o HeaderCells(headers)
                            \o <<ROW_CLOSE>> \o body.html \o <<TABLE_CLOSE>>]

(***************************************************************************)
(* Inputs of the table renderer.                                            *)
(***************************************************************************)
StrAlphabet == {"0", "1", ".", "A"}

SampleStrings ==
    { <<"1", "2", "3", "4", ".", "5">>,
      <<"1", "2", "3", "4", "5", "6", "7">>,
      <<"1", "2", "3", "4", "5", "6", "7", ".", "8", "9", "0", "1">>,
      <<"-", "5">> }

StrCells == { StrV(s) : s \in (UNION { [1..n -> StrAlphabet] : n \in 0..MaxStrLen })
                              \cup SampleStrings }

SampleInts == { 9999, 10000, 99999, 100000, 999999, 1000000, 1234567,
                999999999, 1000000000,
                -9999, -10000, -100000, -999999, -1000000, -1234567 }

IntCells == { IntV(n) : n \in (-MaxCellInt..MaxCellInt) \cup SampleInts }

BoolCells == { BoolV(TRUE), BoolV(FALSE) }

ListCells ==
    { ListV(<<>>), ListV(<<StrV(<<"A">>)>>),
      ListV(<<StrV(<<"A">>), StrV(<<"B">>)>>),
      ListV(<<IntV(1), IntV(2000)>>),
      ListV(<<BoolV(TRUE), NoneV>>),
      ListV(<<StrV(<<"1", "2", "3", "4">>), StrV(<<"A">>)>>),
      ListV(<<ListV(<<StrV(<<"A">>)>>), IntV(1)>>),
      ListV(<<StrV(<<"A">>), StrV(<<"B">>), StrV(<<"C">>)>>) }

CellValues == IntCells \cup StrCells \cup BoolCells \cup ListCells \cup {NoneV}

OneCell(value) == << [k |-> "Amount", v |-> value] >>

TwoCells(a, b) == << [k |-> "Count", v |-> a], [k |-> "Amount", v |-> b] >>

TableInputs ==
    { <<>>, << <<>> >>, << <<>>, <<>> >> }
    \cup { << OneCell(c) >> : c \in CellValues }
    \cup { << TwoCells(IntV(1234567), c) >> : c \in BoolCells \cup ListCells }
    \cup { << OneCell(IntV(7)), OneCell(c) >> : c \in BoolCells \cup {NoneV} }
    \cup { << TwoCells(IntV(1), IntV(2)), OneCell(IntV(3)) >> }

FollowUpInputs == { <<>>, << OneCell(IntV(1234567)) >>, << OneCell(StrV(<<".", "1">>)) >> }

(***************************************************************************)
(* The attachment file system.  A path is the sequence of its components    *)
(* from the root; an attachment name is a relative or an absolute path as   *)
(* the request spells it.                                                   *)
(***************************************************************************)
attachments_dir == <<"app", "Attachments">>

Directories ==
    { <<>>, <<"app">>, <<"etc">>, <<"app", "Attachments">>,
      <<"app", "Attachments", "sub">> }

ReadableFiles ==
    { <<"app", "Attachments", "a.pdf">>, <<"app", "Attachments", "b.pdf">>,
      <<"app", "Attachments", "sub", "c.pdf">>,
      <<"app", ".env">>, <<"etc", "passwd">> }

\* Files that exist but whose open() or read() raises (no permission).
UnreadableFiles == { <<"app", "Attachments", "locked.pdf">> }

Name(abs, parts) == [abs |-> abs, parts |-> parts]

\* os.path.join(attachments_dir, attachment_name): an absolute second
\* argument discards the first.
PathJoin(dir, name) == IF name.abs THEN name.parts ELSE dir \o name.parts

\* os.path.basename(attachment_name)
Basename(name) ==
    IF name.parts = <<>> THEN "" ELSE name.parts[Len(name.parts)]

Parent(path) == IF path = <<>> THEN <<>> ELSE SubSeq(path, 1, Len(path) - 1)

\* Path resolution by the operating system, one component at a time.
RECURSIVE Walk(_, _)
Walk(cur, comps) ==
    IF cur \notin Directories \cup ReadableFiles \cup UnreadableFiles
    THEN [found |-> FALSE, path |-> cur]
    ELSE IF comps = <<>> THEN [found |-> TRUE, path |-> cur]
    ELSE IF cur \notin Directories THEN [found |-> FALSE, path |-> cur]
    ELSE IF Head(comps) = ".." THEN Walk(Parent(cur), Tail(comps))
    ELSE Walk(cur \o <<Head(comps)>>, Tail(comps))

\* os.path.exists(attachment_path)
PathExists(path) == Walk(<<>>, path).found

\* open(attachment_path, 'rb') and f.read(): the file read, or an OSError.
ReadFile(path) ==
    LET w == Walk(<<>>, path) IN
    IF w.found /\ w.path \in ReadableFiles
    THEN [status |-> "ok", file |-> w.path]
    ELSE [status |-> "raise", exc |-> "OSError"]

\* Variant: the read is not guarded by the try block.
AttachOne_NoCatch(parts, attachment_name) ==
    LET attachment_path == PathJoin(attachments_dir, attachment_name) IN
    IF PathExists(attachment_path)
    THEN LET f == ReadFile(attachment_path) IN
         IF f.status = "ok"
         THEN [status |-> "ok",
               parts |-> Append(parts, [kind |-> "file",
                                        name |-> Basename(attachment_name),
                                        file |-> f.file])]
         ELSE f
    ELSE [status |-> "ok", parts |-> parts]

\* One iteration of the attachment loop: the payload after the iteration.
\* An exception of the read is caught inside the loop body.
AttachOne(parts, attachment_name) ==
    LET attachment_path == PathJoin(attachments_dir, attachment_name) IN
    IF PathExists(attachment_path)
    THEN LET f == ReadFile(attachment_path) IN
         IF f.status = "ok"
         THEN [status |-> "ok",
               parts |-> Append(parts, [kind |-> "file",
                                        name |-> Basename(attachment_name),
                                        file |-> f.file])]
         ELSE [status |-> "ok", parts |-> parts]
    ELSE [status |-> "ok", parts |-> parts]

\* The whole loop of the message assembly.
RECURSIVE AttachAll(_, _)
AttachAll(parts, names) ==
    IF names = <<>> THEN [status |-> "ok", parts |-> parts]
    ELSE LET one == AttachOne(parts, Head(names)) IN
         IF one.status = "raise" THEN one
         ELSE AttachAll(one.parts, Tail(names))

AttachmentNames ==
    { Name(FALSE, <<"a.pdf">>), Name(FALSE, <<"missing.pdf">>),
      Name(FALSE, <<"locked.pdf">>), Name(FALSE, <<"sub">>),
      Name(FALSE, <<"sub", "c.pdf">>), Name(FALSE, <<"..", ".env">>),
      Name(FALSE, <<>>),
      Name(TRUE, <<"etc", "passwd">>) }

AttachmentLists == UNION { [1..n -> AttachmentNames] : n \in 0..MaxAttachments }

HtmlPart(html_body) == [kind |-> "html", body |-> html_body]

(***************************************************************************)
(* Requests (EmailSenderRequest, EmailBodyModel, TableFilterInfo).          *)
(***************************************************************************)
\* Table_Filter_infor is Optional: None, or the mapping TableFilterInfo
\* collects into its data field.
NoFilter == [present |-> FALSE, data |-> <<>>]

Filter(row) == [present |-> TRUE, data |-> row]

EmailBodyModel(name, filter) ==
    [Reciever_Name |-> name, Table_Filter_infor |-> filter]

EmailSenderRequest(type, to, cc, subject, body, atts) ==
    [EmailType |-> type, RecieverMail |-> to, CarbonCopyTo |-> cc,
     Subject |-> subject, EmailBody |-> body, Attachments |-> atts]

KnownEmailTypes ==
    { "Mediation", "Defaulted-Cases", "Defaulted-Customers",
      "Normal-Information", "Table-Information", "Action-Required" }

EmailTypeTags == KnownEmailTypes \cup { "Unknown-Type", "", "mediation" }

\* The requests of the concurrent specification.
Requests ==
    { EmailSenderRequest("Normal-Information", "ada@example.com", <<>>, "Hi",
          EmailBodyModel("Ada", NoFilter), <<>>),
      EmailSenderRequest("Table-Information", "bob@example.com",
          <<"cc@example.com">>, "Report",
          EmailBodyModel("Bob", Filter(OneCell(IntV(1234567)))),
          <<Name(FALSE, <<"missing.pdf">>), Name(FALSE, <<"a.pdf">>)>>),
      EmailSenderRequest("Unknown-Type", "zed@example.com", <<>>, "Oops",
          EmailBodyModel("Zed", NoFilter), <<Name(FALSE, <<"a.pdf">>)>>) }

\* The requests of the single-send specification.
Envelopes ==
    { [to |-> "ada@example.com", cc |-> <<>>, subject |-> "Hi", name |-> "Ada"],
      [to |-> "bob@example.com", cc |-> <<"cc@example.com">>,
       subject |-> "Report", name |-> "Bob"] }

Filters ==
    { NoFilter, Filter(<<>>), Filter(OneCell(IntV(1234567))),
      Filter(OneCell(StrV(<<".", "5">>))) }

AttachmentSamples ==
    { <<>>,
      <<Name(FALSE, <<"missing.pdf">>), Name(FALSE, <<"a.pdf">>)>>,
      <<Name(FALSE, <<"..", ".env">>)>> }

AllRequests ==
    { EmailSenderRequest(type, e.to, e.cc, e.subject,
                         EmailBodyModel(e.name, f), atts) :
        type \in EmailTypeTags, e \in Envelopes, f \in Filters,
        atts \in AttachmentSamples }

NoRequest == [EmailType |-> "<no request>"]

(***************************************************************************)
(* Template registry.                                                       *)
(***************************************************************************)
TemplateMapping ==
    [tag \in KnownEmailTypes |->
        CASE tag = "Mediation" -> "mediation_board_template"
          [] tag = "Defaulted-Cases" -> "defaulted_cases_template"
          [] tag = "Defaulted-Customers" -> "defaulted_customers_template"
          [] tag = "Normal-Information" -> "plain_template"
          [] tag = "Table-Information" -> "table_template"
          [] tag = "Action-Required" -> "action_required_template"]

\* Variant: an unknown tag falls back to the plain template.
TemplateGet_Fallback(mapping, tag) ==
    IF tag \in DOMAIN mapping THEN mapping[tag] ELSE "plain_template"

\* dict.get(key): None when the key is absent.
TemplateGet(mapping, tag) ==
    IF tag \in DOMAIN mapping THEN mapping[tag] ELSE "None"

\* "not template_file": None and the empty string are falsy.
NotTemplateFile(template_file) == template_file \in {"None", ""}

TableEmailTypes == { "Table-Information", "Action-Required" }

\* hasattr(request.EmailBody, 'Table_Filter_infor'): the field is declared
\* by the model, so every EmailBodyModel has the attribute.
HasTableFilterAttr(body) == "Table_Filter_infor" \in DOMAIN body

(***************************************************************************)
(* State.                                                                   *)
(***************************************************************************)
VARIABLES
    rows,       \* argument of the current call of build_html_table
    tableOut,   \* what the latest finished call returned or raised
    tpc,        \* "call": the call is entered, "done": it has returned
    renders,    \* number of calls started
    attachments,  \* the attachment list of the message being assembled
    attIdx,       \* index of the next attachment name of the loop
    attStatus,    \* "running", "assembled" or "raised"
    attParts,     \* payload of the message being assembled
    template_mapping,  \* the registry: EmailType tag -> template identifier
    SMTP_USER,    \* configured user name ("" when not configured)
    SMTP_PASSWORD,  \* configured password ("" when not configured)
    req,        \* req[r]: the request of send r
    mode,       \* mode[r]: "sync" (no task runner given) or "deferred"
    pc,         \* pc[r]: position of send r
    result,     \* result[r]: what the caller of send_emails_process got
    exc,        \* exc[r]: the exception send r raised ("none" if none)
    tasks,      \* tasks[r]: the background tasks queued for request r
    stages,     \* stages[r]: the pipeline stages send r has entered
    tmpl,       \* tmpl[r]: template_file of send r
    ctx,        \* ctx[r]: render_context of send r
    msg,        \* msg[r]: the message send r assembled
    conn,       \* conn[r]: "none", "open" or "closed"
    smtp,       \* smtp[r]: the SMTP steps send r attempted, with outcome
    response    \* response[r]: the HTTP response to request r, if any

tvars == <<rows, tableOut, tpc, renders>>

avars == <<attachments, attIdx, attStatus, attParts>>

cvars == <<template_mapping, SMTP_USER, SMTP_PASSWORD>>

dvars == <<req, mode, pc, result, exc, tasks, stages, tmpl, ctx, msg, conn, smtp>>

hvars == <<response>>

vars == <<tvars, avars, cvars, dvars, hvars>>

Sends == 1..MaxSends

NoContext == [built |-> FALSE, keys |-> {}]

NoMessage == [built |-> FALSE, parts |-> <<>>]

NoResponse == [status_code |-> 0]

DispatchIdle ==
    /\ template_mapping = TemplateMapping
    /\ SMTP_USER = ""
    /\ SMTP_PASSWORD = ""
    /\ req = [r \in Sends |-> NoRequest]
    /\ mode = [r \in Sends |-> "sync"]
    /\ pc = [r \in Sends |-> "idle"]
    /\ result = [r \in Sends |-> "none"]
    /\ exc = [r \in Sends |-> "none"]
    /\ tasks = [r \in Sends |-> <<>>]
    /\ stages = [r \in Sends |-> <<>>]
    /\ tmpl = [r \in Sends |-> "None"]
    /\ ctx = [r \in Sends |-> NoContext]
    /\ msg = [r \in Sends |-> NoMessage]
    /\ conn = [r \in Sends |-> "none"]
    /\ smtp = [r \in Sends |-> <<>>]
    /\ response = [r \in Sends |-> NoResponse]

TableIdle ==
    /\ rows = <<>>
    /\ tableOut = [status |-> "none"]
    /\ tpc = "idle"
    /\ renders = 0

AssembleIdle ==
    /\ attachments = <<>>
    /\ attIdx = 0
    /\ attStatus = "idle"
    /\ attParts = <<>>

(***************************************************************************)
(* The table renderer applied to bounded inputs.                            *)
(***************************************************************************)
InitTable ==
    /\ rows \in TableInputs
    /\ tableOut = [status |-> "none"]
    /\ tpc = "call"
    /\ renders = 1
    /\ AssembleIdle
    /\ DispatchIdle

BuildHtmlTable ==
    /\ tpc = "call"
    /\ tableOut' = build_html_table(rows)
    /\ tpc' = "done"
    /\ UNCHANGED <<rows, renders, avars, cvars, dvars, hvars>>

CallAgain ==
    /\ tpc = "done"
    /\ renders < MaxRenders
    /\ \E data \in FollowUpInputs : rows' = data
    /\ tpc' = "call"
    /\ renders' = renders + 1
    /\ UNCHANGED <<tableOut, avars, cvars, dvars, hvars>>

NextTable == BuildHtmlTable \/ CallAgain

SpecTable == InitTable /\ [][NextTable]_vars

(***************************************************************************)
(* The attachment loop of the message assembly applied to bounded           *)
(* attachment lists: the message already holds the HTML body part.          *)
(***************************************************************************)
SAMPLE_BODY == [template |-> "plain_template"]

InitAssemble ==
    /\ attachments \in AttachmentLists
    /\ attIdx = 1
    /\ attStatus = "running"
    /\ attParts = <<HtmlPart(SAMPLE_BODY)>>
    /\ TableIdle
    /\ DispatchIdle

AttachNext ==
    /\ attStatus = "running"
    /\ attIdx <= Len(attachments)
    /\ LET one == AttachOne(attParts, attachments[attIdx]) IN
         IF one.status = "raise"
         THEN attStatus' = "raised" /\ UNCHANGED attParts
         ELSE attStatus' = "running" /\ attParts' = one.parts
    /\ attIdx' = attIdx + 1
    /\ UNCHANGED <<attachments, tvars, cvars, dvars, hvars>>

AttachDone ==
    /\ attStatus = "running"
    /\ attIdx > Len(attachments)
    /\ attStatus' = "assembled"
    /\ UNCHANGED <<attachments, attIdx, attParts, tvars, cvars, dvars, hvars>>

NextAssemble == AttachNext \/ AttachDone

SpecAssemble == InitAssemble /\ [][NextAssemble]_vars

(***************************************************************************)
(* The dispatch service: send_emails_process and send_email_function.       *)
(***************************************************************************)
\* The environment's EMAIL_USER and EMAIL_PASS: all four configurations,
\* and the two of them the concurrent specification starts from.
AllCredentials ==
    { <<"", "">>, <<"mailer@example.com", "">>, <<"", "secret">>,
      <<"mailer@example.com", "secret">> }

Credentials == { <<"", "">>, <<"mailer@example.com", "secret">> }

Configured(credentials) ==
    \E c \in credentials : SMTP_USER = c[1] /\ SMTP_PASSWORD = c[2]

InitDispatch ==
    /\ TableIdle
    /\ AssembleIdle
    /\ template_mapping = TemplateMapping
    /\ req = [r \in Sends |-> NoRequest]
    /\ mode = [r \in Sends |-> "sync"]
    /\ pc = [r \in Sends |-> "idle"]
    /\ result = [r \in Sends |-> "none"]
    /\ exc = [r \in Sends |-> "none"]
    /\ tasks = [r \in Sends |-> <<>>]
    /\ stages = [r \in Sends |-> <<>>]
    /\ tmpl = [r \in Sends |-> "None"]
    /\ ctx = [r \in Sends |-> NoContext]
    /\ msg = [r \in Sends |-> NoMessage]
    /\ conn = [r \in Sends |-> "none"]
    /\ smtp = [r \in Sends |-> <<>>]
    /\ response = [r \in Sends |-> NoResponse]

Init == InitDispatch /\ Configured(Credentials)

InitSend == InitDispatch /\ Configured(AllCredentials)

\* FROM_EMAIL = SMTP_USER or "no-reply@example.com"
FROM_EMAIL == IF SMTP_USER # "" THEN SMTP_USER ELSE "no-reply@example.com"

Step(op, ok) == [op |-> op, ok |-> ok]

\* Variant: the except clause logs the exception and the call still
\* returns the success result.
Raise_Swallowed(r, e) ==
    /\ pc' = [pc EXCEPT ![r] = "failed"]
    /\ exc' = [exc EXCEPT ![r] = e]
    /\ result' = [result EXCEPT ![r] = IF mode[r] = "sync" THEN "success" ELSE @]

\* An exception leaves send_email_function.  In a synchronous send it passes
\* through the except clause of send_emails_process (logged, re-raised) to
\* the caller; in a deferred send it ends in the task runner.
Raise(r, e) ==
    /\ pc' = [pc EXCEPT ![r] = "failed"]
    /\ exc' = [exc EXCEPT ![r] = e]
    /\ result' = [result EXCEPT ![r] = IF mode[r] = "sync" THEN "raised" ELSE @]

\* A request q arrives, with or without a background task runner.
Arrive(r, q) ==
    /\ pc[r] = "idle"
    /\ \E m \in {"sync", "deferred"} : mode' = [mode EXCEPT ![r] = m]
    /\ req' = [req EXCEPT ![r] = q]
    /\ pc' = [pc EXCEPT ![r] = "received"]
    /\ UNCHANGED <<result, exc, tasks, stages, tmpl, ctx, msg, conn, smtp>>
    /\ UNCHANGED <<tvars, avars, cvars, hvars>>

\* Requests arrive in the order of their numbers.
Receive(r) ==
    /\ r > 1 => pc[r - 1] # "idle"
    /\ \E q \in Requests : Arrive(r, q)

ReceiveAny ==
    /\ \E q \in AllRequests : Arrive(1, q)

\* Variant: the EmailType is validated before the task is added.
send_emails_process_Eager(r) ==
    /\ pc[r] = "received"
    /\ IF mode[r] = "deferred"
       THEN IF NotTemplateFile(TemplateGet(template_mapping, req[r].EmailType))
            THEN /\ result' = [result EXCEPT ![r] = "raised"]
                 /\ exc' = [exc EXCEPT ![r] = "ValueError"]
                 /\ pc' = [pc EXCEPT ![r] = "failed"]
                 /\ UNCHANGED tasks
            ELSE /\ tasks' = [tasks EXCEPT ![r] = Append(@, "send_email_function")]
                 /\ result' = [result EXCEPT ![r] = "processing"]
                 /\ pc' = [pc EXCEPT ![r] = "queued"]
                 /\ UNCHANGED exc
       ELSE /\ pc' = [pc EXCEPT ![r] = "resolve"]
            /\ UNCHANGED <<tasks, result, exc>>
    /\ UNCHANGED <<req, mode, stages, tmpl, ctx, msg, conn, smtp>>
    /\ UNCHANGED <<tvars, avars, cvars, hvars>>

\* send_emails_process up to the call of send_email_function: with a task
\* runner the task is added and the acknowledgement returned.
send_emails_process(r) ==
    /\ pc[r] = "received"
    /\ IF mode[r] = "deferred"
       THEN /\ tasks' = [tasks EXCEPT ![r] = Append(@, "send_email_function")]
            /\ result' = [result EXCEPT ![r] = "processing"]
            /\ pc' = [pc EXCEPT ![r] = "queued"]
       ELSE /\ pc' = [pc EXCEPT ![r] = "resolve"]
            /\ UNCHANGED <<tasks, result>>
    /\ UNCHANGED <<req, mode, exc, stages, tmpl, ctx, msg, conn, smtp>>
    /\ UNCHANGED <<tvars, avars, cvars, hvars>>

\* The task runner starts the queued send_email_function.
RunTask(r) ==
    /\ pc[r] = "queued"
    /\ tasks[r] # <<>>
    /\ tasks' = [tasks EXCEPT ![r] = Tail(@)]
    /\ pc' = [pc EXCEPT ![r] = "resolve"]
    /\ UNCHANGED <<req, mode, result, exc, stages, tmpl, ctx, msg, conn, smtp>>
    /\ UNCHANGED <<tvars, avars, cvars, hvars>>

\* The registry lookup at the head of send_email_function.
Resolve(r) ==
    /\ pc[r] = "resolve"
    /\ stages' = [stages EXCEPT ![r] = Append(@, "resolve")]
    /\ LET template_file == TemplateGet(template_mapping, req[r].EmailType) IN
         IF NotTemplateFile(template_file)
         THEN Raise(r, "ValueError") /\ UNCHANGED tmpl
         ELSE /\ tmpl' = [tmpl EXCEPT ![r] = template_file]
              /\ pc' = [pc EXCEPT ![r] = "render"]
              /\ UNCHANGED <<result, exc>>
    /\ UNCHANGED <<req, mode, tasks, ctx, msg, conn, smtp>>
    /\ UNCHANGED <<tvars, avars, cvars, hvars>>

\* Variant: the subject is stored under the former key "Subject".
BaseContext_LegacySubject(request) ==
    [built |-> TRUE,
     keys |-> {"Reciever_Name", "Table_Filter_infor", "Date_3545",
               "Subject", "Reciever_Name_3545"},
     Reciever_Name |-> request.EmailBody.Reciever_Name,
     Table_Filter_infor |-> request.EmailBody.Table_Filter_infor,
     Date_3545 |-> "now",
     Subject_3545 |-> "",
     Reciever_Name_3545 |-> request.EmailBody.Reciever_Name,
     DYNAMIC_TABLE |-> <<>>]

\* render_context as built from the request body and the injected keys.
BaseContext(request) ==
    [built |-> TRUE,
     keys |-> {"Reciever_Name", "Table_Filter_infor", "Date_3545",
               "Subject_3545", "Reciever_Name_3545"},
     Reciever_Name |-> request.EmailBody.Reciever_Name,
     Table_Filter_infor |-> request.EmailBody.Table_Filter_infor,
     Date_3545 |-> "now",
     Subject_3545 |-> request.Subject,
     Reciever_Name_3545 |-> request.EmailBody.Reciever_Name,
     DYNAMIC_TABLE |-> <<>>]

WithTable(context, table_html) ==
    [context EXCEPT !.keys = @ \cup {"DYNAMIC_TABLE"}, !.DYNAMIC_TABLE = table_html]

\* The render context of a request: the base context, and for the table
\* types the fragment of build_html_table([table_data]).  Reading .data of
\* a Table_Filter_infor that is None raises AttributeError.
RenderContext(request) ==
    LET base == BaseContext(request)
        body == request.EmailBody
    IN  IF request.EmailType \in TableEmailTypes /\ HasTableFilterAttr(body)
        THEN IF ~body.Table_Filter_infor.present
             THEN [status |-> "raise", exc |-> "AttributeError", ctx |-> base]
             ELSE LET table_data == body.Table_Filter_infor.data
                      table_html == build_html_table(<<table_data>>)
                  IN  IF table_html.status = "raise"
                      THEN [status |-> "raise", exc |-> table_html.exc, ctx |-> base]
                      ELSE [status |-> "ok", ctx |-> WithTable(base, table_html.html)]
        ELSE [status |-> "ok", ctx |-> base]

\* template.render(**render_context)
RenderedBody(template_file, context) ==
    [template |-> template_file, context |-> context]

\* The try block of send_email_function: load the template, build the
\* context, render.  The template directory and the template source are
\* environment: the file may be absent and the template may fail to render.
Render(r) ==
    /\ pc[r] = "render"
    /\ stages' = [stages EXCEPT ![r] = Append(@, "render")]
    /\ \E env \in {"ok", "TemplateNotFound", "RenderError"} :
         IF env = "TemplateNotFound"
         THEN Raise(r, "TemplateNotFound") /\ UNCHANGED ctx
         ELSE LET c == RenderContext(req[r]) IN
              /\ ctx' = [ctx EXCEPT ![r] = c.ctx]
              /\ IF c.status = "raise" THEN Raise(r, c.exc)
                 ELSE IF env = "RenderError" THEN Raise(r, "RenderError")
                 ELSE /\ pc' = [pc EXCEPT ![r] = "assemble"]
                      /\ UNCHANGED <<result, exc>>
    /\ UNCHANGED <<req, mode, tasks, tmpl, msg, conn, smtp>>
    /\ UNCHANGED <<tvars, avars, cvars, hvars>>

\* The MIME message of a request and its rendered body.
Message(request, html_body, payload) ==
    [built |-> TRUE,
     From |-> FROM_EMAIL,
     To |-> request.RecieverMail,
     Cc |-> request.CarbonCopyTo,
     Subject |-> request.Subject,
     parts |-> payload]

\* Variant: the message is one module-level object that every send fills.
Assemble_SharedMessage(r) ==
    /\ pc[r] = "assemble"
    /\ stages' = [stages EXCEPT ![r] = Append(@, "assemble")]
    /\ LET html_body == RenderedBody(tmpl[r], ctx[r])
           payload == AttachAll(<<HtmlPart(html_body)>>, req[r].Attachments)
       IN  IF payload.status = "raise"
           THEN Raise(r, payload.exc) /\ UNCHANGED msg
           ELSE /\ msg' = [q \in Sends |-> Message(req[r], html_body, payload.parts)]
                /\ pc' = [pc EXCEPT ![r] = "connect"]
                /\ UNCHANGED <<result, exc>>
    /\ UNCHANGED <<req, mode, tasks, tmpl, ctx, conn, smtp>>
    /\ UNCHANGED <<tvars, avars, cvars, hvars>>

\* Message assembly: headers, HTML body, then the attachment loop.
Assemble(r) ==
    /\ pc[r] = "assemble"
    /\ stages' = [stages EXCEPT ![r] = Append(@, "assemble")]
    /\ LET html_body == RenderedBody(tmpl[r], ctx[r])
           payload == AttachAll(<<HtmlPart(html_body)>>, req[r].Attachments)
       IN  IF payload.status = "raise"
           THEN Raise(r, payload.exc) /\ UNCHANGED msg
           ELSE /\ msg' = [msg EXCEPT ![r] = Message(req[r], html_body, payload.parts)]
                /\ pc' = [pc EXCEPT ![r] = "connect"]
                /\ UNCHANGED <<result, exc>>
    /\ UNCHANGED <<req, mode, tasks, tmpl, ctx, conn, smtp>>
    /\ UNCHANGED <<tvars, avars, cvars, hvars>>

\* smtplib.SMTP(SMTP_HOST, SMTP_PORT): the connection is opened, or the
\* constructor raises and there is no connection.
Connect(r) ==
    /\ pc[r] = "connect"
    /\ stages' = [stages EXCEPT ![r] = Append(@, "deliver")]
    /\ \E ok \in BOOLEAN :
         /\ smtp' = [smtp EXCEPT ![r] = Append(@, Step("connect", ok))]
         /\ IF ok
            THEN /\ conn' = [conn EXCEPT ![r] = "open"]
                 /\ pc' = [pc EXCEPT ![r] = "starttls"]
                 /\ UNCHANGED <<result, exc>>
            ELSE Raise(r, "SMTPException") /\ UNCHANGED conn
    /\ UNCHANGED <<req, mode, tasks, tmpl, ctx, msg>>
    /\ UNCHANGED <<tvars, avars, cvars, hvars>>

\* Variant: the user name alone decides whether to log in.
HasCredentials_UserOnly == SMTP_USER # ""

\* "if SMTP_USER and SMTP_PASSWORD"
HasCredentials == SMTP_USER # "" /\ SMTP_PASSWORD # ""

\* A step inside the with block: on failure the exception is pending while
\* the with statement exits.
SmtpStep(r, op, next) ==
    \E ok \in BOOLEAN :
        /\ smtp' = [smtp EXCEPT ![r] = Append(@, Step(op, ok))]
        /\ IF ok
           THEN pc' = [pc EXCEPT ![r] = next] /\ UNCHANGED exc
           ELSE /\ pc' = [pc EXCEPT ![r] = "exit"]
                /\ exc' = [exc EXCEPT ![r] = "SMTPException"]

\* server.starttls()
StartTLS(r) ==
    /\ pc[r] = "starttls"
    /\ SmtpStep(r, "starttls", IF HasCredentials THEN "login" ELSE "send_message")
    /\ UNCHANGED <<req, mode, result, tasks, stages, tmpl, ctx, msg, conn>>
    /\ UNCHANGED <<tvars, avars, cvars, hvars>>

\* server.login(SMTP_USER, SMTP_PASSWORD)
Login(r) ==
    /\ pc[r] = "login"
    /\ SmtpStep(r, "login", "send_message")
    /\ UNCHANGED <<req, mode, result, tasks, stages, tmpl, ctx, msg, conn>>
    /\ UNCHANGED <<tvars, avars, cvars, hvars>>

\* server.send_message(msg)
SendMessage(r) ==
    /\ pc[r] = "send_message"
    /\ SmtpStep(r, "send_message", "exit")
    /\ UNCHANGED <<req, mode, result, tasks, stages, tmpl, ctx, msg, conn>>
    /\ UNCHANGED <<tvars, avars, cvars, hvars>>

\* Variant: the connection is closed at the end of the block only, so an
\* exception inside the block leaves it open.
SmtpExit_LeakOnError(r) ==
    /\ pc[r] = "exit"
    /\ IF exc[r] # "none"
       THEN /\ Raise(r, exc[r])
            /\ UNCHANGED <<conn, smtp>>
       ELSE /\ conn' = [conn EXCEPT ![r] = "closed"]
            /\ smtp' = [smtp EXCEPT ![r] = Append(@, Step("close", TRUE))]
            /\ pc' = [pc EXCEPT ![r] = "done"]
            /\ result' = [result EXCEPT ![r] =
                             IF mode[r] = "sync" THEN "success" ELSE @]
            /\ UNCHANGED exc
    /\ UNCHANGED <<req, mode, tasks, stages, tmpl, ctx, msg>>
    /\ UNCHANGED <<tvars, avars, cvars, hvars>>

\* Variant: a failed delivery is tried once more on a new connection.
SmtpExit_Retry(r) ==
    /\ pc[r] = "exit"
    /\ conn' = [conn EXCEPT ![r] = "closed"]
    /\ smtp' = [smtp EXCEPT ![r] = Append(@, Step("close", TRUE))]
    /\ IF exc[r] # "none" /\ Len(smtp[r]) <= 5
       THEN /\ pc' = [pc EXCEPT ![r] = "connect"]
            /\ exc' = [exc EXCEPT ![r] = "none"]
            /\ UNCHANGED result
       ELSE IF exc[r] # "none"
       THEN Raise(r, exc[r])
       ELSE /\ pc' = [pc EXCEPT ![r] = "done"]
            /\ result' = [result EXCEPT ![r] =
                             IF mode[r] = "sync" THEN "success" ELSE @]
            /\ UNCHANGED exc
    /\ UNCHANGED <<req, mode, tasks, stages, tmpl, ctx, msg>>
    /\ UNCHANGED <<tvars, avars, cvars, hvars>>

\* The with statement exits: the connection is closed, then a pending
\* exception is logged and re-raised, or the function returns.
SmtpExit(r) ==
    /\ pc[r] = "exit"
    /\ conn' = [conn EXCEPT ![r] = "closed"]
    /\ smtp' = [smtp EXCEPT ![r] = Append(@, Step("close", TRUE))]
    /\ IF exc[r] # "none"
       THEN Raise(r, exc[r])
       ELSE /\ pc' = [pc EXCEPT ![r] = "done"]
            /\ result' = [result EXCEPT ![r] =
                             IF mode[r] = "sync" THEN "success" ELSE @]
            /\ UNCHANGED exc
    /\ UNCHANGED <<req, mode, tasks, stages, tmpl, ctx, msg>>
    /\ UNCHANGED <<tvars, avars, cvars, hvars>>

(***************************************************************************)
(* The HTTP route POST /send-emails (routes/email_sender_routes.py).        *)
(***************************************************************************)
\* The body the handler returns, sent with the route's status code 202.
Accepted(request, status, message) ==
    [status_code |-> 202,
     status |-> status,
     message |-> message,
     details |-> [template_used |-> request.EmailType,
                  recipient |-> request.RecieverMail,
                  cc_recipients |-> request.CarbonCopyTo,
                  has_attachments |-> Len(request.Attachments) > 0,
                  sent_at |-> "now"]]

\* A validated request reaches the handler.  The framework injects a
\* BackgroundTasks instance, which is truthy: the send is deferred.
Post(q) ==
    /\ pc[1] = "idle"
    /\ req' = [req EXCEPT ![1] = q]
    /\ mode' = [mode EXCEPT ![1] = "deferred"]
    /\ pc' = [pc EXCEPT ![1] = "posted"]
    /\ UNCHANGED <<result, exc, tasks, stages, tmpl, ctx, msg, conn, smtp>>
    /\ UNCHANGED <<tvars, avars, cvars, hvars>>

PostAny == \E q \in AllRequests : Post(q)

\* The handler send_emails: send_emails_process(request, background_tasks)
\* adds the task and returns the acknowledgement, which the handler wraps
\* with the details of the request.  add_task and the two dict literals do
\* not raise, so neither except clause of the handler is entered; the task
\* runs after the response has been sent.
send_emails(r) ==
    /\ pc[r] = "posted"
    /\ mode[r] = "deferred"
    /\ tasks' = [tasks EXCEPT ![r] = Append(@, "send_email_function")]
    /\ result' = [result EXCEPT ![r] = "processing"]
    /\ response' = [response EXCEPT ![r] =
                       Accepted(req[r], "processing", "Email queued for sending")]
    /\ pc' = [pc EXCEPT ![r] = "queued"]
    /\ UNCHANGED <<req, mode, exc, stages, tmpl, ctx, msg, conn, smtp>>
    /\ UNCHANGED <<tvars, avars, cvars>>

Next ==
    \E r \in Sends :
        \/ Receive(r)
        \/ send_emails_process(r)
        \/ RunTask(r)
        \/ Resolve(r)
        \/ Render(r)
        \/ Assemble(r)
        \/ Connect(r)
        \/ StartTLS(r)
        \/ Login(r)
        \/ SendMessage(r)
        \/ SmtpExit(r)

Spec == Init /\ [][Next]_vars

\* The requests all arrive with a task runner: every send is deferred.
ReceiveDeferred(r) ==
    /\ Receive(r)
    /\ mode'[r] = "deferred"

NextDeferred ==
    \E r \in Sends :
        \/ ReceiveDeferred(r)
        \/ send_emails_process(r)
        \/ RunTask(r)
        \/ Resolve(r)
        \/ Render(r)
        \/ Assemble(r)
        \/ Connect(r)
        \/ StartTLS(r)
        \/ Login(r)
        \/ SendMessage(r)
        \/ SmtpExit(r)

SpecDeferred == Init /\ [][NextDeferred]_vars

\* One send, of any request of AllRequests, called directly or posted to
\* the route.
NextSend ==
    \/ ReceiveAny
    \/ PostAny
    \/ send_emails_process(1)
    \/ send_emails(1)
    \/ RunTask(1)
    \/ Resolve(1)
    \/ Render(1)
    \/ Assemble(1)
    \/ Connect(1)
    \/ StartTLS(1)
    \/ Login(1)
    \/ SendMessage(1)
    \/ SmtpExit(1)

SpecSend == InitSend /\ [][NextSend]_vars

(***************************************************************************)
(* Reading a rendered fragment back: the texts between <td> and </td>, in   *)
(* document order.                                                          *)
(***************************************************************************)
RECURSIVE IndexOfToken(_, _, _)
IndexOfToken(s, tok, i) ==
    IF i > Len(s) THEN 0
    ELSE IF s[i] = tok THEN i
    ELSE IndexOfToken(s, tok, i + 1)

RECURSIVE CellTexts(_)
CellTexts(html) ==
    LET i == IndexOfToken(html, "<td>", 1) IN
    IF i = 0 THEN <<>>
    ELSE LET rest == SubSeq(html, i + 1, Len(html))
             j == IndexOfToken(rest, "</td>", 1)
         IN  <<SubSeq(rest, 1, j - 1)>> \o CellTexts(SubSeq(rest, j + 1, Len(rest)))

\* The cells of the current input with their rendered texts, as a set of
\* [value, text] records (defined when the latest call returned a table).
RenderedCells ==
    IF tpc = "done" /\ tableOut.status = "ok" /\ rows # <<>>
    THEN LET headers == Keys(rows[1])
             n == Len(headers)
             texts == CellTexts(tableOut.html)
         IN  { [value |-> Lookup(rows[r], headers[c]), text |-> texts[(r - 1) * n + c]] :
                 r \in 1..Len(rows), c \in 1..n }
    ELSE {}

RECURSIVE StripCommas(_)
StripCommas(s) ==
    IF s = <<>> THEN <<>>
    ELSE IF Head(s) = "," THEN StripCommas(Tail(s))
    ELSE <<Head(s)>> \o StripCommas(Tail(s))

RECURSIVE NumberOf(_)
NumberOf(ds) ==
    IF ds = <<>> THEN 0
    ELSE NumberOf(SubSeq(ds, 1, Len(ds) - 1)) * 10 + DigitValue(ds[Len(ds)])

\* body is the decimal numeral of m >= 0 with a comma before each complete
\* group of three digits counted from the right.
IsGrouped(body, m) ==
    /\ body # <<>>
    /\ Len(body) % 4 # 0
    /\ \A i \in 1..Len(body) :
          /\ (body[i] = ",") <=> ((Len(body) - i + 1) % 4 = 0)
          /\ body[i] # "," => IsDigitChar(body[i])
    /\ NumberOf(StripCommas(body)) = m
    /\ (body[1] = "0" => body = <<"0">>)

IsGroupedDecimal(text, n) ==
    IF n < 0
    THEN text # <<>> /\ Head(text) = "-" /\ IsGrouped(Tail(text), 0 - n)
    ELSE IsGrouped(text, n)

(***************************************************************************)
(* Views of a send used by the properties.                                  *)
(***************************************************************************)
PipelineStages == <<"resolve", "render", "assemble", "deliver">>

IsPrefix(s, t) == Len(s) <= Len(t) /\ s = SubSeq(t, 1, Len(s))

Range(s) == { s[i] : i \in 1..Len(s) }

\* Nothing of the pipeline after the registry lookup has happened for r.
NothingLoaded(r) ==
    /\ tmpl[r] = "None"
    /\ ~ctx[r].built
    /\ ~msg[r].built
    /\ conn[r] = "none"
    /\ smtp[r] = <<>>

(***************************************************************************)
(* C1: each of the six registered EmailType tags resolves to a non-empty    *)
(* template identifier; a send of any other tag fails with the ValueError   *)
(* of the registry lookup before a template is loaded, a message assembled  *)
(* or a connection opened; no send changes the registry.                    *)
(***************************************************************************)
C1_RegistryResolve ==
    /\ template_mapping = TemplateMapping
    /\ \A tag \in KnownEmailTypes :
          TemplateGet(template_mapping, tag) \notin {"None", ""}
    /\ \A r \in Sends :
          (req[r] # NoRequest /\ stages[r] # <<>>) =>
              IF req[r].EmailType \in KnownEmailTypes
              THEN tmpl[r] = TemplateMapping[req[r].EmailType]
              ELSE /\ pc[r] = "failed"
                   /\ exc[r] = "ValueError"
                   /\ stages[r] = <<"resolve">>
                   /\ NothingLoaded(r)

C1_Witness ==
    /\ req[1] # NoRequest
    /\ req[1].EmailType = "Unknown-Type"
    /\ mode[1] = "sync"
    /\ pc[1] = "failed"
    /\ result[1] = "raised"

RenderFailures == {"TemplateNotFound", "RenderError", "AttributeError", "KeyError"}

(***************************************************************************)
(* C2: in a synchronous send the stages run in the order registry lookup,   *)
(* render, assemble, deliver; the call returns success only when all four   *)
(* ran without a failure and the message was transmitted; otherwise the     *)
(* first failure is raised to the caller and no later stage has run.        *)
(***************************************************************************)
C2_SyncPipeline ==
    \A r \in Sends :
        (mode[r] = "sync" /\ pc[r] # "idle") =>
            /\ IsPrefix(stages[r], PipelineStages)
            /\ result[r] \in {"none", "success", "raised"}
            /\ (result[r] = "success") <=> (pc[r] = "done")
            /\ (result[r] = "raised") <=> (pc[r] = "failed")
            /\ pc[r] = "done" =>
                  /\ stages[r] = PipelineStages
                  /\ exc[r] = "none"
                  /\ msg[r].built
                  /\ Step("send_message", TRUE) \in Range(smtp[r])
                  /\ \A st \in Range(smtp[r]) : st.ok
            /\ pc[r] = "failed" =>
                  /\ exc[r] # "none"
                  /\ Cardinality({ i \in 1..Len(smtp[r]) : ~smtp[r][i].ok }) <= 1
                  /\ Step("send_message", TRUE) \notin Range(smtp[r])
                  /\ exc[r] = "SMTPException" =>
                        /\ stages[r] = PipelineStages
                        /\ \E i \in 1..Len(smtp[r]) : ~smtp[r][i].ok
                  /\ exc[r] \in RenderFailures =>
                        /\ stages[r] = <<"resolve", "render">>
                        /\ ~msg[r].built
                        /\ smtp[r] = <<>>
                  /\ exc[r] = "ValueError" =>
                        /\ stages[r] \in { <<"resolve">>, <<"resolve", "render">> }
                        /\ ~msg[r].built
                        /\ smtp[r] = <<>>
                  /\ exc[r] \in RenderFailures \cup {"ValueError", "SMTPException"}

C2_Witness ==
    /\ mode[1] = "sync"
    /\ pc[1] = "failed"
    /\ result[1] = "raised"
    /\ exc[1] = "RenderError"
    /\ stages[1] = <<"resolve", "render">>

(***************************************************************************)
(* C3: a deferred send adds exactly one task for the request and returns    *)
(* the acknowledgement before any stage of the pipeline has run; the        *)
(* acknowledgement is the same for every request and stays the caller's     *)
(* result whatever the deferred pipeline does, a failure included.          *)
(***************************************************************************)
C3_DeferredAcknowledged ==
    \A r \in Sends :
        mode[r] = "deferred" =>
            /\ pc[r] \in {"idle", "received"} =>
                  /\ result[r] = "none"
                  /\ tasks[r] = <<>>
                  /\ stages[r] = <<>>
            /\ pc[r] \notin {"idle", "received"} => result[r] = "processing"
            /\ pc[r] = "queued" =>
                  /\ tasks[r] = <<"send_email_function">>
                  /\ stages[r] = <<>>
                  /\ exc[r] = "none"
                  /\ NothingLoaded(r)
            /\ pc[r] \notin {"idle", "received", "queued"} => tasks[r] = <<>>

C3_Witness ==
    \E r \in Sends :
        /\ mode[r] = "deferred"
        /\ req[r].EmailType = "Unknown-Type"
        /\ pc[r] = "failed"
        /\ exc[r] = "ValueError"
        /\ result[r] = "processing"

DispatchState(r) ==
    CASE pc[r] = "idle" -> "None"
      [] pc[r] = "received" -> "Received"
      [] pc[r] \notin {"idle", "received"} /\ result[r] = "processing" -> "Queued"
      [] pc[r] \notin {"idle", "received"} /\ result[r] = "success" -> "Sent"
      [] pc[r] \notin {"idle", "received"} /\ result[r] = "raised" -> "Failed"
      [] OTHER -> "Sending"

DispatchMoves ==
    { <<"None", "Received">>, <<"Received", "Queued">>, <<"Received", "Sending">>,
      <<"Sending", "Sent">>, <<"Sending", "Failed">> }

TransmitAttempts(r) ==
    Cardinality({ i \in 1..Len(smtp[r]) : smtp[r][i].op = "send_message" })

SendView(r) ==
    <<req[r], mode[r], pc[r], result[r], exc[r], tasks[r], stages[r], tmpl[r],
      ctx[r], msg[r], conn[r], smtp[r]>>

\* A step seen from send r: a finished send keeps everything it has; any
\* other send makes one of the moves, or none.
C4_Step ==
    \A r \in Sends :
        IF pc[r] \in {"done", "failed"}
        THEN SendView(r)' = SendView(r)
        ELSE /\ \/ DispatchState(r)' = DispatchState(r)
                \/ <<DispatchState(r), DispatchState(r)'>> \in DispatchMoves
             /\ DispatchState(r)' \in {"Queued", "Sent", "Failed"} <=>
                   result'[r] \in {"processing", "success", "raised"}
             /\ result[r] # "none" => result'[r] = result[r]
             /\ TransmitAttempts(r)' <= 1

(***************************************************************************)
(* C4: the dispatch state of a send, as send_emails_process reports it,     *)
(* moves only Received -> Queued or Received -> Sending -> Sent | Failed;   *)
(* the caller's result is queued, sent or failed; a finished send never     *)
(* changes again; send_message is attempted at most once per request.       *)
(***************************************************************************)
C4_DispatchStateMachine == [][C4_Step]_vars

C4_Witness ==
    \E r1, r2 \in Sends :
        /\ DispatchState(r1) = "Failed"
        /\ Step("send_message", FALSE) \in Range(smtp[r1])
        /\ DispatchState(r2) = "Queued"
        /\ pc[r2] = "done"
        /\ TransmitAttempts(r2) = 1

FileOf(name) == Walk(<<>>, PathJoin(attachments_dir, name))

CanAttach(name) == FileOf(name).found /\ FileOf(name).path \in ReadableFiles

LastComponent(name) == IF name.parts = <<>> THEN "" ELSE name.parts[Len(name.parts)]

\* The payload after the first n names of the list have been processed.
ExpectedPayload(parts, names, n) ==
    LET ok == { i \in 1..n : CanAttach(names[i]) } IN
    /\ Len(parts) = 1 + Cardinality(ok)
    /\ parts[1] = HtmlPart(SAMPLE_BODY)
    /\ \A i \in ok :
          LET k == 1 + Cardinality({ j \in ok : j <= i }) IN
          /\ parts[k].kind = "file"
          /\ parts[k].name = LastComponent(names[i])
          /\ parts[k].file = FileOf(names[i]).path

(***************************************************************************)
(* C5: the attachment loop never aborts the assembly: the message is the    *)
(* HTML body part followed by the attachments whose file exists and can be  *)
(* read, in request order, each under its base name; a missing or           *)
(* unreadable file is skipped and the names after it are still processed.   *)
(***************************************************************************)
C5_AttachmentsNeverAbort ==
    attStatus # "idle" =>
        /\ attStatus # "raised"
        /\ attStatus = "running" => attIdx <= Len(attachments) + 1
        /\ attStatus = "assembled" => attIdx = Len(attachments) + 1
        /\ ExpectedPayload(attParts, attachments, attIdx - 1)

C5_Witness ==
    /\ attStatus = "assembled"
    /\ attachments = <<Name(FALSE, <<"locked.pdf">>), Name(FALSE, <<"sub", "c.pdf">>)>>
    /\ Len(attParts) = 2
    /\ attParts[2].name = "c.pdf"

InsideAttachmentsDir(path) ==
    /\ Len(path) > Len(attachments_dir)
    /\ SubSeq(path, 1, Len(attachments_dir)) = attachments_dir

(***************************************************************************)
(* C6: every file attached to an outgoing message lies inside the           *)
(* attachments directory, whatever the filename in the request (absolute    *)
(* paths and '..' components included).                                     *)
(***************************************************************************)
C6_AttachmentsContained ==
    \A i \in 1..Len(attParts) :
        attParts[i].kind = "file" => InsideAttachmentsDir(attParts[i].file)

(***************************************************************************)
(* C8: a send of a table type whose Table_Filter_infor mapping is empty     *)
(* gets the no-data placeholder of the table renderer as its table          *)
(* fragment, not a table element.                                           *)
(***************************************************************************)
C8_EmptyFilterNoData ==
    \A r \in Sends :
        ( /\ ctx[r].built
          /\ req[r].EmailType \in TableEmailTypes
          /\ req[r].EmailBody.Table_Filter_infor.present
          /\ req[r].EmailBody.Table_Filter_infor.data = <<>> ) =>
            /\ "DYNAMIC_TABLE" \in ctx[r].keys
            /\ ctx[r].DYNAMIC_TABLE = <<"<p>No data available.</p>">>

(***************************************************************************)
(* C7: build_html_table of an empty list of rows returns the fixed no-data  *)
(* fragment and does not raise, whatever the previous call rendered.        *)
(***************************************************************************)
C7_EmptyRowsNoData ==
    (tpc = "done" /\ rows = <<>>) =>
        tableOut = [status |-> "ok", html |-> <<"<p>No data available.</p>">>]

C7_Witness ==
    /\ tpc = "done"
    /\ rows = <<>>
    /\ renders = 2
    /\ tableOut.status = "ok"

(***************************************************************************)
(* C9: an integer cell (negative values included) is rendered as its        *)
(* decimal digits with a comma between groups of three digits counted from  *)
(* the right; a boolean cell is rendered as True or False, never as a       *)
(* number.                                                                  *)
(***************************************************************************)
C9_IntegerCellsGrouped ==
    \A cell \in RenderedCells :
        /\ cell.value.t = "int" => IsGroupedDecimal(cell.text, cell.value.v)
        /\ cell.value.t = "bool" =>
              cell.text = (IF cell.value.v THEN <<"T", "r", "u", "e">>
                           ELSE <<"F", "a", "l", "s", "e">>)

C9_Witness ==
    /\ [value |-> IntV(1234567),
        text |-> <<"1", ",", "2", "3", "4", ",", "5", "6", "7">>] \in RenderedCells
    /\ [value |-> BoolV(TRUE), text |-> <<"T", "r", "u", "e">>] \in RenderedCells

AcceptedStringCells ==
    IF tpc = "done" /\ rows # <<>>
    THEN { x \in UNION { { rows[r][c].v : c \in 1..Len(rows[r]) } : r \in 1..Len(rows) } :
             x.t = "str" /\ IsNumericString(x.v) }
    ELSE {}

IsGroupedNumericString(text, s) ==
    LET d == FirstDot(s, 1)
        t == FirstDot(text, 1)
    IN  IF d = 0
        THEN t = 0 /\ IsGrouped(text, NumberOf(s))
        ELSE /\ t # 0
             /\ SubSeq(text, t + 1, Len(text)) = SubSeq(s, d + 1, Len(s))
             /\ IsGrouped(SubSeq(text, 1, t - 1), NumberOf(SubSeq(s, 1, d - 1)))

(***************************************************************************)
(* C10: for every string cell the numeric-string test accepts (digits and   *)
(* at most one point), build_html_table returns and the cell text is the    *)
(* thousands-grouped integer part followed, when a point is present, by the *)
(* point and the fractional digits as given.                                *)
(***************************************************************************)
C10_NumericStringsGrouped ==
    AcceptedStringCells # {} =>
        /\ tableOut.status = "ok"
        /\ \A cell \in RenderedCells :
              (cell.value.t = "str" /\ IsNumericString(cell.value.v)) =>
                  IsGroupedNumericString(cell.text, cell.value.v)

\* The cells the first two rules (number, numeric string) do not take.
IsNonNumericCell(value) ==
    \/ value.t \in {"bool", "none", "list"}
    \/ value.t = "str" /\ ~IsNumericString(value.v)

IsPair(value) == value.t = "list" /\ Len(value.v) = 2

PairText(value) ==
    DefaultStr(value.v[1]) \o <<" ", "-", " ">> \o DefaultStr(value.v[2])

AllCells ==
    UNION { { rows[r][c].v : c \in 1..Len(rows[r]) } : r \in 1..Len(rows) }

(***************************************************************************)
(* C11: a cell whose value is a list of exactly two elements is rendered    *)
(* as "<first> - <second>"; every other value that is neither a number nor  *)
(* a numeric string (a list of another length, a non-numeric string, a      *)
(* boolean, null) is rendered in its default string form; the number and    *)
(* the numeric-string rules come first, so a pair of numbers or of numeric  *)
(* strings is joined as given and a boolean is never grouped; a table made  *)
(* of such cells only is rendered without an error of the formatting.       *)
(***************************************************************************)
C11_NonNumericCells ==
    /\ \A cell \in RenderedCells :
          IsNonNumericCell(cell.value) =>
              cell.text = (IF IsPair(cell.value) THEN PairText(cell.value)
                           ELSE DefaultStr(cell.value))
    /\ (tpc = "done" /\ \A value \in AllCells : IsNonNumericCell(value)) =>
          (tableOut.status = "raise" => tableOut.exc = "KeyError")

C11_Witness ==
    /\ [value |-> ListV(<<StrV(<<"A">>), StrV(<<"B">>)>>),
        text |-> <<"A", " ", "-", " ", "B">>] \in RenderedCells
    /\ [value |-> IntV(1234567),
        text |-> <<"1", ",", "2", "3", "4", ",", "5", "6", "7">>] \in RenderedCells

InjectedKeys == {"Date_3545", "Subject_3545", "Reciever_Name_3545"}

\* The context c carries the three injected keys with the values of request q.
HasInjected(c, q) ==
    /\ InjectedKeys \subseteq c.keys
    /\ c.Date_3545 = "now"
    /\ c.Subject_3545 = q.Subject
    /\ c.Reciever_Name_3545 = q.EmailBody.Reciever_Name

(***************************************************************************)
(* C12: every render context built for a send contains the send timestamp, *)
(* the subject and the recipient name under the three injected keys, the    *)
(* subject being the request's Subject and the name the Reciever_Name of    *)
(* the request body, for every EmailType and with or without the table      *)
(* fragment; the body of an assembled message was rendered from it.         *)
(***************************************************************************)
C12_InjectedKeys ==
    \A r \in Sends :
        /\ ctx[r].built => HasInjected(ctx[r], req[r])
        /\ msg[r].built =>
              /\ ctx[r].built
              /\ msg[r].parts[1] = HtmlPart(RenderedBody(tmpl[r], ctx[r]))

C12_Witness ==
    /\ pc[1] = "done"
    /\ req[1].EmailType = "Action-Required"
    /\ "DYNAMIC_TABLE" \in ctx[1].keys
    /\ ctx[1].Subject_3545 = "Report"
    /\ ctx[1].Reciever_Name_3545 = "Bob"

\* The send of request r has ended in a failure of its pipeline.
SendFailed(r) == pc[r] = "failed"

IsErrorResponse(resp) == resp.status_code >= 400

EchoesRequest(resp, q) ==
    /\ resp.status_code = 202
    /\ resp.details.template_used = q.EmailType
    /\ resp.details.recipient = q.RecieverMail
    /\ resp.details.cc_recipients = q.CarbonCopyTo
    /\ resp.details.has_attachments = (q.Attachments # <<>>)

(***************************************************************************)
(* C13: the response of the route to a validated request is the 202         *)
(* acknowledgement whose details echo the request (template_used,           *)
(* recipient, cc_recipients, has_attachments exactly when the attachment    *)
(* list is non-empty); when the send of the request fails (unknown          *)
(* EmailType, template or render fault, delivery fault) the HTTP caller     *)
(* has been given an error status, not the acknowledgement.                 *)
(***************************************************************************)
C13_RouteReportsFailure ==
    \A r \in Sends :
        response[r] # NoResponse =>
            IF SendFailed(r) THEN IsErrorResponse(response[r])
            ELSE EchoesRequest(response[r], req[r])

ProtocolOrder == <<"connect", "starttls", "login", "send_message", "close">>

Rank(op) == CHOOSE i \in 1..Len(ProtocolOrder) : ProtocolOrder[i] = op

BothConfigured == SMTP_USER # "" /\ SMTP_PASSWORD # ""

Attempted(r, op) == \E i \in 1..Len(smtp[r]) : smtp[r][i].op = op

Succeeded(r, op) == [op |-> op, ok |-> TRUE] \in Range(smtp[r])

(***************************************************************************)
(* C14: the SMTP steps of a send occur only in the order connect,           *)
(* STARTTLS, login, transmit, close, each at most once and starting with    *)
(* connect; after a successful STARTTLS the next step is login exactly      *)
(* when both SMTP_USER and SMTP_PASSWORD are non-empty; the message is      *)
(* transmitted only after STARTTLS and, when both are configured, login     *)
(* have succeeded; a failed step is followed by nothing but the close.      *)
(***************************************************************************)
C14_ProtocolOrder ==
    \A r \in Sends :
        LET steps == smtp[r] IN
        /\ \A i \in 1..Len(steps) : steps[i].op \in Range(ProtocolOrder)
        /\ \A i, j \in 1..Len(steps) :
              i < j => Rank(steps[i].op) < Rank(steps[j].op)
        /\ steps # <<>> => steps[1].op = "connect"
        /\ Len(steps) >= 2 =>
              /\ steps[1].ok
              /\ steps[2].op = "starttls"
        /\ Len(steps) >= 3 =>
              IF ~steps[2].ok THEN steps[3].op = "close"
              ELSE IF BothConfigured THEN steps[3].op = "login"
              ELSE steps[3].op = "send_message"
        /\ Attempted(r, "login") => BothConfigured
        /\ Attempted(r, "send_message") =>
              /\ Succeeded(r, "connect")
              /\ Succeeded(r, "starttls")
              /\ BothConfigured => Succeeded(r, "login")
        /\ \A i \in 1..Len(steps) :
              (~steps[i].ok /\ i < Len(steps)) =>
                  /\ i + 1 = Len(steps)
                  /\ steps[i + 1].op = "close"
        /\ pc[r] = "done" =>
              /\ Succeeded(r, "send_message")
              /\ steps[Len(steps)].op = "close"

C14_Witness ==
    /\ BothConfigured
    /\ pc[1] = "failed"
    /\ smtp[1] = <<Step("connect", TRUE), Step("starttls", TRUE),
                   Step("login", FALSE), Step("close", TRUE)>>

Ended(r) == pc[r] \in {"done", "failed"}

InsideWithBlock(r) == pc[r] \in {"starttls", "login", "send_message", "exit"}

(***************************************************************************)
(* C15: a connection is open only while its send is inside the delivery     *)
(* block; when a send has ended, by success or by a failure of STARTTLS,    *)
(* login or transmission, the connection it opened is closed, so after any  *)
(* sequence of sends no connection is open; a delivery failure is raised    *)
(* to the caller (or to the task runner) only with the connection closed.   *)
(***************************************************************************)
C15_ConnectionReleased ==
    /\ \A r \in Sends :
          /\ conn[r] = "open" => InsideWithBlock(r)
          /\ Ended(r) =>
                /\ conn[r] \in {"none", "closed"}
                /\ conn[r] = "closed" <=> Succeeded(r, "connect")
                /\ Succeeded(r, "connect") =>
                      smtp[r][Len(smtp[r])] = Step("close", TRUE)
          /\ (pc[r] = "failed" /\ exc[r] = "SMTPException") =>
                /\ conn[r] # "open"
                /\ mode[r] = "sync" => result[r] = "raised"
          /\ result[r] = "raised" => conn[r] # "open"
    /\ (\A r \in Sends : pc[r] = "idle" \/ Ended(r)) =>
          \A r \in Sends : conn[r] # "open"

C15_Witness ==
    \E r1, r2 \in Sends :
        /\ r1 # r2
        /\ Ended(r1) /\ Ended(r2)
        /\ smtp[r1] = <<Step("connect", TRUE), Step("starttls", FALSE),
                        Step("close", TRUE)>>
        /\ mode[r1] = "sync" /\ result[r1] = "raised"
        /\ Step("send_message", FALSE) \in Range(smtp[r2])
        /\ conn[r1] = "closed" /\ conn[r2] = "closed"

CountToken(html, tok) == Cardinality({ i \in 1..Len(html) : html[i] = tok })

\* html is a table of the one row given: its keys as header cells and one
\* data row with a cell per key.
IsOneRowTable(html, row) ==
    /\ html # <<>>
    /\ html[1] = TABLE_OPEN
    /\ html[Len(html)] = TABLE_CLOSE
    /\ CountToken(html, HEADER_ROW_OPEN) = 1
    /\ CountToken(html, ROW_OPEN) = 1
    /\ CountToken(html, "<th>") = Len(row)
    /\ CountToken(html, "<td>") = Len(row)
    /\ \A i \in 1..Len(row) : \E j \in 1..Len(html) - 1 :
          html[j] = "<th>" /\ html[j + 1] = row[i].k

CarriesFilter(q) == q.EmailBody.Table_Filter_infor.present

NeedsTable(q) == q.EmailType \in {"Table-Information", "Action-Required"}

\* The failures the table step of the context can cause.
TableStepFailures == {"AttributeError", "KeyError", "ValueError"}

(***************************************************************************)
(* C16: the render context of a send holds the table fragment exactly when  *)
(* the EmailType is Table-Information or Action-Required and the body       *)
(* carries a TableFilterInfo, and the fragment is then the one-row table of *)
(* that mapping; a request of a table type without a TableFilterInfo, and   *)
(* every request of another type, gets a context without the fragment and   *)
(* its send does not fail in the table step.                                *)
(***************************************************************************)
C16_TableInjection ==
    \A r \in Sends :
        ctx[r].built =>
            /\ "DYNAMIC_TABLE" \in ctx[r].keys =>
                  /\ NeedsTable(req[r]) /\ CarriesFilter(req[r])
                  /\ IsOneRowTable(ctx[r].DYNAMIC_TABLE,
                                   req[r].EmailBody.Table_Filter_infor.data)
            /\ (NeedsTable(req[r]) /\ CarriesFilter(req[r])
                   /\ pc[r] \notin {"render", "failed"}) =>
                  "DYNAMIC_TABLE" \in ctx[r].keys
            /\ ~(NeedsTable(req[r]) /\ CarriesFilter(req[r])) =>
                  /\ "DYNAMIC_TABLE" \notin ctx[r].keys
                  /\ exc[r] \notin TableStepFailures

\* The render context of send r holds the values of request r.
OwnContext(r) ==
    ctx[r].built =>
        /\ req[r] # NoRequest
        /\ HasInjected(ctx[r], req[r])
        /\ ctx[r].Reciever_Name = req[r].EmailBody.Reciever_Name
        /\ ctx[r].Table_Filter_infor = req[r].EmailBody.Table_Filter_infor

\* The message of send r is made of request r only.
OwnMessage(r) ==
    msg[r].built =>
        /\ req[r] # NoRequest
        /\ msg[r].To = req[r].RecieverMail
        /\ msg[r].Cc = req[r].CarbonCopyTo
        /\ msg[r].Subject = req[r].Subject
        /\ msg[r].parts[1] = HtmlPart(RenderedBody(tmpl[r], ctx[r]))
        /\ \A i \in 2..Len(msg[r].parts) :
              /\ msg[r].parts[i].kind = "file"
              /\ \E n \in Range(req[r].Attachments) :
                    /\ msg[r].parts[i].name = LastComponent(n)
                    /\ msg[r].parts[i].file = FileOf(n).path

\* Send r has at most one connection, and it is its own.
OwnConnection(r) ==
    /\ Cardinality({ i \in 1..Len(smtp[r]) : smtp[r][i].op = "connect" }) <= 1
    /\ conn[r] = "none" <=> ~Succeeded(r, "connect")
    /\ Attempted(r, "send_message") => msg[r].built

\* A step moves one send and leaves everything of every other send as it
\* is, the outcome included.
C17_Step ==
    /\ Cardinality({ r \in Sends : pc'[r] # pc[r] }) <= 1
    /\ \A r \in Sends : pc'[r] = pc[r] => SendView(r)' = SendView(r)

C17_Own == \A r \in Sends : OwnContext(r) /\ OwnMessage(r) /\ OwnConnection(r)

(***************************************************************************)
(* C17: interleaved deferred sends are independent: each send has its own   *)
(* render context, message and connection, built from its own request; the  *)
(* message it transmits carries only its request's recipient, CC list,      *)
(* subject, rendered body and attachments; a step of one send, its failure  *)
(* included, changes nothing of any other send, so no send's outcome        *)
(* depends on another's.                                                    *)
(***************************************************************************)
C17_IndependentSends == []C17_Own /\ [][C17_Step]_vars

C17_Witness ==
    \E r1, r2 \in Sends :
        /\ mode[r1] = "deferred" /\ mode[r2] = "deferred"
        /\ pc[r1] = "failed" /\ Step("send_message", FALSE) \in Range(smtp[r1])
        /\ pc[r2] = "done" /\ Succeeded(r2, "send_message")
        /\ msg[r1].To = "ada@example.com" /\ msg[r2].To = "bob@example.com"
        /\ Len(msg[r2].parts) = 2

====
